---- MODULE Spec2Model ----
(***************************************************************************)
(* Model of tutorial/source/bayesian_regression.ipynb: one top-to-bottom   *)
(* run of the notebook's code cells.                                       *)
(*                                                                         *)
(* Numbers.  Standard deviations are integers in units of 1/100 (0.01 is   *)
(* 1, 0.1 is 10).  The evaluation cell's tensors are exact rationals,      *)
(* stored as integers in units of 1/Scale, Scale = (20 - 1) * 20, so that  *)
(* linspace(6, 7, num=20) and the division by 20 are both exact; float32   *)
(* rounding is not modelled.  The values a library draws at random or      *)
(* learns (the dataset's entries, Adam's updates, the regressor a guide    *)
(* samples) are either left out or chosen nondeterministically.            *)
(***************************************************************************)
EXTENDS Integers, Sequences, FiniteSets, Bags

VARIABLES
    cell,            \* index in Cells of the code cell being run (Len+1: run over)
    at,              \* position inside the cell: "start", "loop" or "aborted"
    env_CI,          \* 'CI' in os.environ
    version_ok,      \* pyro.__version__.startswith('0.3.0')
    smoke_test,      \* global smoke_test ("unbound" before the setup cell)
    num_iterations,  \* global num_iterations (Unbound before it is assigned)
    optim,           \* what the global name optim is bound to
    main_def,        \* what the global name main is bound to
    call,            \* arguments of the latest build_linear_dataset call
    data,            \* what that call returned
    j,               \* loop variable of the running main
    n_zero_grad,     \* optim.zero_grad() calls so far
    n_backward,      \* loss.backward() calls so far
    n_optim_step,    \* optim.step() calls so far
    n_svi_step,      \* svi.step(data) calls so far
    param_store,     \* names in pyro's parameter store
    obs_scale,       \* scale of the Normal at the "obs" site, last model run
    i,               \* loop variable of the evaluation cell
    y_preds,         \* global y_preds, in units of 1/Scale
    sampled,         \* bag of the regressors guide(None) has returned so far
    loss,            \* the printed evaluation loss, a rational num/den
    printed          \* what the run has printed, in order

vars == << cell, at, env_CI, version_ok, smoke_test, num_iterations, optim,
           main_def, call, data, j, n_zero_grad, n_backward, n_optim_step,
           n_svi_step, param_store, obs_scale, i, y_preds, sampled, loss,
           printed >>

Unbound == 0 - 1

(***************************************************************************)
(* Program constants.                                                      *)
(***************************************************************************)
N == 100
DefaultP == 1
DefaultNoiseStd == 1
DocNoiseStd == 10
ObsNoiseStd == 10
NumIterFull == 1000
NumIterSmoke == 2
DocIterations == 500
LogEveryTrain == 50
LogEverySvi == 100
LinStart == 6
LinStop == 7
NumTest == 20
TrueW == 3
TrueB == 1
NumPredRows == 20
NumSamples == 20
AvgDiv == 20

(***************************************************************************)
(* Bounds of the model.                                                    *)
(***************************************************************************)
MaxN == 6
MaxP == 5
MaxW == 3

NoiseValues == {0 - DefaultNoiseStd, 0, DefaultNoiseStd, ObsNoiseStd}
WeightValues == 2..MaxW
BiasValues == {0, 1}
Regressors == [w : WeightValues, b : BiasValues]

(***************************************************************************)
(* The notebook's code cells, in document order.                           *)
(***************************************************************************)
Cells_Swapped ==
    << "setup", "data", "regression", "train", "prior", "model", "guide",
       "svi", "validate", "infer", "evaluate" >>

Cells ==
    << "setup", "data", "regression", "train", "prior", "model", "guide",
       "svi", "infer", "validate", "evaluate" >>

Current == IF cell \in 1..Len(Cells) THEN Cells[cell] ELSE "end"

(***************************************************************************)
(* Shapes of numpy arrays and torch tensors: sequences of dimensions.      *)
(***************************************************************************)
ShapeErr == << Unbound >>

RECURSIVE Prod(_)
Prod(s) == IF s = << >> THEN 1 ELSE Head(s) * Prod(Tail(s))

\* np.random.rand(N, p)
rand(n, p) == << n, p >>

\* np.ones(p)
ones(p) == << p >>

\* np.matmul of a 2-D array with a 1-D array
matmul(a, b) ==
    IF Len(a) = 2 /\ Len(b) = 1 /\ a[2] = b[1] THEN << a[1] >> ELSE ShapeErr

\* np.repeat(1, N)
repeat(n) == << n >>

\* np.random.normal(0, noise_std, size=N): ValueError when noise_std < 0
normal(noise_std, n) == IF noise_std < 0 THEN ShapeErr ELSE << n >>

\* numpy broadcasting of a + b
Dim(s, k, len) == IF k > len - Len(s) THEN s[k - (len - Len(s))] ELSE 1
Max2(a, b) == IF a >= b THEN a ELSE b
broadcast(a, b) ==
    IF a = ShapeErr \/ b = ShapeErr THEN ShapeErr
    ELSE LET len == Max2(Len(a), Len(b))
             ok(k) == \/ Dim(a, k, len) = Dim(b, k, len)
                      \/ Dim(a, k, len) = 1
                      \/ Dim(b, k, len) = 1
         IN IF \A k \in 1..len : ok(k)
            THEN [k \in 1..len |-> Max2(Dim(a, k, len), Dim(b, k, len))]
            ELSE ShapeErr

\* ndarray.reshape(shape)
reshape(s, new) ==
    IF s # ShapeErr /\ Prod(s) = Prod(new) THEN new ELSE ShapeErr

\* torch.cat((a, b), 1)
cat1(a, b) ==
    IF a # ShapeErr /\ b # ShapeErr /\ Len(a) = 2 /\ Len(b) = 2 /\ a[1] = b[1]
    THEN << a[1], a[2] + b[2] >>
    ELSE ShapeErr

reshape_y_Flat(y, n) == y

\* y = y.reshape(N, 1)
reshape_y(y, n) == reshape(y, << n, 1 >>)

build_linear_dataset(n, p, noise_std) ==
    LET X == rand(n, p)
        w == ones(p)
        y0 == broadcast(broadcast(matmul(X, w), repeat(n)), normal(noise_std, n))
        y == reshape_y(y0, n)
        d == cat1(X, y)
    IN [ X_shape   |-> X,
         y_shape   |-> y,
         shape     |-> d,
         noise_std |-> noise_std,
         status    |-> IF noise_std < 0 THEN "ValueError"
                       ELSE IF d = ShapeErr THEN "RuntimeError"
                       ELSE IF d = << n, p + 1 >> THEN "ok"
                       ELSE "AssertionError" ]

\* build_linear_dataset(N): p and noise_std take their defaults
DefaultCall(n) == [N |-> n, p |-> DefaultP, noise_std |-> DefaultNoiseStd]
Build(c) == build_linear_dataset(c.N, c.p, c.noise_std)
NoData == [ X_shape |-> ShapeErr, y_shape |-> ShapeErr, shape |-> ShapeErr,
            noise_std |-> Unbound, status |-> "none" ]
NoCall == [N |-> Unbound, p |-> Unbound, noise_std |-> Unbound]

(***************************************************************************)
(* The evaluation cell's arithmetic, in units of 1/Scale.                  *)
(***************************************************************************)
Scale == (NumTest - 1) * AvgDiv

\* np.linspace(6, 7, num=20)[k-1]
linspace(k) ==
    (LinStart * (NumTest - 1) + (k - 1) * (LinStop - LinStart)) * AvgDiv

x_test == [k \in 1..NumTest |-> linspace(k)]

\* y = 3 * X + 1
y_test == [k \in 1..NumTest |-> TrueW * x_test[k] + TrueB * Scale]

\* nn.Linear(1, 1) with weight r.w and bias r.b, applied row by row
forward(r, x) == [k \in DOMAIN x |-> r.w * x[k] + r.b * Scale]

\* torch.zeros(20, 1)
zeros(n) == [k \in 1..n |-> 0]

\* y_preds + sampled_reg_model(x_data); (20, 1) + (20, 1), row by row
add(a, b) ==
    IF DOMAIN a = DOMAIN b THEN [k \in DOMAIN a |-> a[k] + b[k]] ELSE << >>

average_Off(v) == [k \in DOMAIN v |-> v[k] \div (NumSamples - 1)]

\* y_preds / 20
average(v) == [k \in DOMAIN v |-> v[k] \div AvgDiv]

RECURSIVE SumSq(_, _, _)
SumSq(a, b, k) ==
    IF k = 0 THEN 0 ELSE (a[k] - b[k]) * (a[k] - b[k]) + SumSq(a, b, k - 1)

\* nn.MSELoss(): the mean of the squared differences
MSELoss(a, b) ==
    [num |-> SumSq(a, b, Len(a)), den |-> Len(a) * Scale * Scale]

NoLoss == [num |-> Unbound, den |-> 1]

(***************************************************************************)
(* model, guide and the parameter store.                                   *)
(***************************************************************************)
GuideParams ==
    { "guide_mean_weight", "guide_log_scale_weight",
      "guide_mean_bias", "guide_log_scale_bias" }

\* pyro.param(name, init) registers name when it is not in the store yet
guide_params(store) == store \cup GuideParams

\* the scale of Normal(prediction_mean, 0.1 * torch.ones(data.size(0)))
model_obs_scale == ObsNoiseStd

Emit(tag, n) == Append(printed, << tag, n >>)

(***************************************************************************)
(* Initial state: nothing has run; the environment is arbitrary.           *)
(***************************************************************************)
Init ==
    /\ cell = 1
    /\ at = "start"
    /\ env_CI \in BOOLEAN
    /\ version_ok \in BOOLEAN
    /\ smoke_test = "unbound"
    /\ num_iterations = Unbound
    /\ optim = "unbound"
    /\ main_def = "unbound"
    /\ call = NoCall
    /\ data = NoData
    /\ j = 0
    /\ n_zero_grad = 0
    /\ n_backward = 0
    /\ n_optim_step = 0
    /\ n_svi_step = 0
    /\ param_store = {}
    /\ obs_scale = Unbound
    /\ i = 0
    /\ y_preds = << >>
    /\ sampled = EmptyBag
    /\ loss = NoLoss
    /\ printed = << >>

Running(name) == Current = name /\ at = "start"
Looping(name) == Current = name /\ at = "loop"

EvalVars == << i, y_preds, sampled, loss >>
TrainVars == << n_zero_grad, n_backward, n_optim_step >>
EnvVars == << env_CI, version_ok >>

\* smoke_test = ('CI' in os.environ); assert pyro.__version__.startswith(...)
Setup ==
    /\ Running("setup")
    /\ smoke_test' = IF env_CI THEN "True" ELSE "False"
    /\ IF version_ok
       THEN cell' = cell + 1 /\ at' = "start"
       ELSE cell' = cell /\ at' = "aborted"
    /\ UNCHANGED << EnvVars, num_iterations, optim, main_def, call, data, j,
                    TrainVars, n_svi_step, param_store, obs_scale, EvalVars,
                    printed >>

\* cells that only bind names: N and build_linear_dataset; RegressionModel and
\* regression_model; the prior example; model; softplus and guide
Definitions ==
    /\ \/ Running("data")
       \/ Running("regression")
       \/ Running("prior")
       \/ Running("model")
       \/ Running("guide")
    /\ cell' = cell + 1
    /\ UNCHANGED << at, EnvVars, smoke_test, num_iterations, optim, main_def,
                    call, data, j, TrainVars, n_svi_step, param_store,
                    obs_scale, EvalVars, printed >>

\* loss_fn, optim, num_iterations, def main, and main() up to its loop
TrainBegin ==
    /\ Running("train")
    /\ optim' = "torch.optim.Adam"
    /\ num_iterations' = IF smoke_test = "True" THEN NumIterSmoke ELSE NumIterFull
    /\ main_def' = "train"
    /\ call' = DefaultCall(N)
    /\ data' = Build(call')
    /\ IF data'.status = "ok"
       THEN at' = "loop" /\ j' = 0
       ELSE at' = "aborted" /\ j' = j
    /\ UNCHANGED << cell, EnvVars, smoke_test, TrainVars, n_svi_step,
                    param_store, obs_scale, EvalVars, printed >>

\* one iteration of for j in range(num_iterations) in the first main
TrainIter ==
    /\ Looping("train")
    /\ j < num_iterations
    /\ n_zero_grad' = n_zero_grad + 1
    /\ n_backward' = n_backward + 1
    /\ n_optim_step' = n_optim_step + 1
    /\ printed' = IF (j + 1) % LogEveryTrain = 0
                  THEN Emit("iteration", j + 1) ELSE printed
    /\ j' = j + 1
    /\ UNCHANGED << cell, at, EnvVars, smoke_test, num_iterations, optim,
                    main_def, call, data, n_svi_step, param_store, obs_scale,
                    EvalVars >>

\* the loop is over: print the learned parameters, main returns
TrainEnd ==
    /\ Looping("train")
    /\ j >= num_iterations
    /\ printed' = Emit("Learned parameters", 2)
    /\ cell' = cell + 1
    /\ at' = "start"
    /\ UNCHANGED << EnvVars, smoke_test, num_iterations, optim, main_def, call,
                    data, j, TrainVars, n_svi_step, param_store, obs_scale,
                    EvalVars >>

\* optim = Adam({"lr": 0.05}); svi = SVI(model, guide, optim, loss=Trace_ELBO())
SviCell ==
    /\ Running("svi")
    /\ optim' = "pyro.optim.Adam"
    /\ cell' = cell + 1
    /\ UNCHANGED << at, EnvVars, smoke_test, num_iterations, main_def, call,
                    data, j, TrainVars, n_svi_step, param_store, obs_scale,
                    EvalVars, printed >>

\* def main, and main() up to its loop
InferBegin ==
    /\ Running("infer")
    /\ main_def' = "svi"
    /\ param_store' = {}
    /\ call' = DefaultCall(N)
    /\ data' = Build(call')
    /\ IF data'.status = "ok"
       THEN at' = "loop" /\ j' = 0
       ELSE at' = "aborted" /\ j' = j
    /\ UNCHANGED << cell, EnvVars, smoke_test, num_iterations, optim,
                    TrainVars, n_svi_step, obs_scale, EvalVars, printed >>

\* one iteration: svi.step(data) runs guide(data) and model(data)
InferIter ==
    /\ Looping("infer")
    /\ j < num_iterations
    /\ param_store' = guide_params(param_store)
    /\ obs_scale' = model_obs_scale
    /\ n_svi_step' = n_svi_step + 1
    /\ printed' = IF j % LogEverySvi = 0
                  THEN Emit("iteration", j + 1) ELSE printed
    /\ j' = j + 1
    /\ UNCHANGED << cell, at, EnvVars, smoke_test, num_iterations, optim,
                    main_def, call, data, TrainVars, EvalVars >>

InferEnd ==
    /\ Looping("infer")
    /\ j >= num_iterations
    /\ cell' = cell + 1
    /\ at' = "start"
    /\ UNCHANGED << EnvVars, smoke_test, num_iterations, optim, main_def, call,
                    data, j, TrainVars, n_svi_step, param_store, obs_scale,
                    EvalVars, printed >>

\* for name, value in pyro.get_param_store().items(): print(...)
Validate ==
    /\ Running("validate")
    /\ printed' = Emit("param store", Cardinality(param_store))
    /\ cell' = cell + 1
    /\ UNCHANGED << at, EnvVars, smoke_test, num_iterations, optim, main_def,
                    call, data, j, TrainVars, n_svi_step, param_store,
                    obs_scale, EvalVars >>

\* the evaluation cell up to its loop
EvalBegin ==
    /\ Running("evaluate")
    /\ y_preds' = zeros(NumPredRows)
    /\ i' = 0
    /\ at' = "loop"
    /\ UNCHANGED << cell, EnvVars, smoke_test, num_iterations, optim, main_def,
                    call, data, j, TrainVars, n_svi_step, param_store,
                    obs_scale, sampled, loss, printed >>

\* one iteration of for i in range(20): guide(None) returns some regressor
EvalIter ==
    /\ Looping("evaluate")
    /\ i < NumSamples
    /\ \E r \in Regressors :
          /\ sampled' = sampled (+) SetToBag({r})
          /\ y_preds' = add(y_preds, forward(r, x_test))
    /\ param_store' = guide_params(param_store)
    /\ i' = i + 1
    /\ UNCHANGED << cell, at, EnvVars, smoke_test, num_iterations, optim,
                    main_def, call, data, j, TrainVars, n_svi_step, obs_scale,
                    loss, printed >>

\* y_preds = y_preds / 20; print("Loss: ", loss(y_preds, y_data).item())
EvalEnd ==
    /\ Looping("evaluate")
    /\ i >= NumSamples
    /\ y_preds' = average(y_preds)
    /\ loss' = MSELoss(y_preds', y_test)
    /\ printed' = Emit("Loss", 1)
    /\ cell' = cell + 1
    /\ at' = "start"
    /\ UNCHANGED << EnvVars, smoke_test, num_iterations, optim, main_def, call,
                    data, j, TrainVars, n_svi_step, param_store, obs_scale, i,
                    sampled >>

Next ==
    \/ Setup
    \/ Definitions
    \/ TrainBegin
    \/ TrainIter
    \/ TrainEnd
    \/ SviCell
    \/ InferBegin
    \/ InferIter
    \/ InferEnd
    \/ Validate
    \/ EvalBegin
    \/ EvalIter
    \/ EvalEnd

Spec == Init /\ [][Next]_vars

(***************************************************************************)
(* build_linear_dataset on its own, over bounded arguments.                *)
(***************************************************************************)
InitDataset ==
    /\ cell = Len(Cells) + 1
    /\ at = "call"
    /\ env_CI = FALSE
    /\ version_ok = TRUE
    /\ smoke_test = "unbound"
    /\ num_iterations = Unbound
    /\ optim = "unbound"
    /\ main_def = "unbound"
    /\ call \in [N : 1..MaxN, p : 1..MaxP, noise_std : NoiseValues]
    /\ data = NoData
    /\ j = 0
    /\ n_zero_grad = 0
    /\ n_backward = 0
    /\ n_optim_step = 0
    /\ n_svi_step = 0
    /\ param_store = {}
    /\ obs_scale = Unbound
    /\ i = 0
    /\ y_preds = << >>
    /\ sampled = EmptyBag
    /\ loss = NoLoss
    /\ printed = << >>

CallBuild ==
    /\ at = "call"
    /\ data' = Build(call)
    /\ at' = "returned"
    /\ UNCHANGED << cell, EnvVars, smoke_test, num_iterations, optim, main_def,
                    call, j, TrainVars, n_svi_step, param_store, obs_scale,
                    EvalVars, printed >>

NextDataset == CallBuild

SpecDataset == InitDataset /\ [][NextDataset]_vars

(***************************************************************************)
(* Properties.                                                             *)
(***************************************************************************)
Printed(tag) == \E k \in DOMAIN printed : printed[k][1] = tag
TrainStopped == Printed("Learned parameters")
StorePrinted == Printed("param store")
EvalDone == Printed("Loss")

\* C1: the phases happen in a fixed order.  A gradient step of the first main
\* is only ever taken while no svi.step has been taken; an svi.step is only
\* ever taken when the first main's loop is over (all num_iterations gradient
\* steps taken, its parameters printed), the parameter store has not been
\* printed and no regressor has been sampled by the evaluation loop; the store
\* is printed and a regressor is sampled only when all num_iterations
\* svi.steps have been taken.
C1_PhaseOrder ==
    [][ /\ n_optim_step' # n_optim_step => n_svi_step = 0
        /\ n_svi_step' # n_svi_step =>
              /\ TrainStopped
              /\ n_optim_step = num_iterations
              /\ ~StorePrinted
              /\ sampled = EmptyBag
        /\ (StorePrinted' /\ ~StorePrinted) \/ sampled' # sampled =>
              /\ n_svi_step = num_iterations
              /\ n_svi_step' = n_svi_step
              /\ n_optim_step' = n_optim_step ]_vars

C1_Witness ==
    /\ Current = "end"
    /\ smoke_test = "False"
    /\ n_optim_step = 1000
    /\ n_svi_step = 1000
    /\ StorePrinted
    /\ BagCardinality(sampled) = 20

\* C2: outside smoke-test mode, once the point-estimate training loop has
\* stopped it has taken exactly 500 optimizer steps, one zero_grad, one
\* backward and one step per iteration.
C2_FiveHundredSteps ==
    (smoke_test = "False" /\ TrainStopped) =>
        /\ n_optim_step = DocIterations
        /\ n_zero_grad = DocIterations
        /\ n_backward = DocIterations

\* C3: once the SVI main has run the model, the standard deviation of the
\* Normal at the "obs" site equals the noise standard deviation its
\* build_linear_dataset(N) call generated y with, and that value is 0.1.
C3_SameNoise ==
    n_svi_step > 0 =>
        /\ obs_scale = data.noise_std
        /\ data.noise_std = DocNoiseStd

\* C4: the evaluation samples exactly 20 regressors and runs each on the same
\* 20 test inputs 6 + (k-1)/19; y_preds starts from zero and is the running
\* sum of the sampled regressors' predictions; the final y_preds is, for every
\* test input, that sum over the 20 regressors divided by 20; and the printed
\* loss is the mean squared difference between that average and 3*X + 1.
\* Values are in units of 1/380.
C4_X(k) == 2280 + 20 * (k - 1)
C4_Pred(r, k) == r.w * C4_X(k) + 380 * r.b
C4_Truth(k) == 3 * C4_X(k) + 380

RECURSIVE C4_SumOver(_, _)
C4_SumOver(S, k) ==
    IF S = {} THEN 0
    ELSE LET r == CHOOSE q \in S : TRUE
         IN CopiesIn(r, sampled) * C4_Pred(r, k) + C4_SumOver(S \ {r}, k)

C4_Sum(k) == C4_SumOver(BagToSet(sampled), k)

RECURSIVE C4_SqErr(_)
C4_SqErr(k) ==
    IF k = 0 THEN 0
    ELSE (y_preds[k] - C4_Truth(k)) * (y_preds[k] - C4_Truth(k)) + C4_SqErr(k - 1)

C4_Average ==
    /\ Looping("evaluate") =>
          /\ BagCardinality(sampled) = i
          /\ i <= 20
          /\ DOMAIN y_preds = 1..20
          /\ \A k \in 1..20 : y_preds[k] = C4_Sum(k)
    /\ EvalDone =>
          /\ BagCardinality(sampled) = 20
          /\ DOMAIN y_preds = 1..20
          /\ \A k \in 1..20 : 20 * y_preds[k] = C4_Sum(k)
          /\ loss = [num |-> C4_SqErr(20), den |-> 20 * 380 * 380]

C4_Witness ==
    /\ EvalDone
    /\ Cardinality(BagToSet(sampled)) >= 3
    /\ loss.num > 0
    /\ y_preds[1] # y_preds[20]

\* C5: the assertion data.shape == (N, p + 1) never fails: for every N >= 1,
\* p >= 1 and noise_std, build_linear_dataset does not end in an
\* AssertionError; whenever it returns, X has shape (N, p), y has shape
\* (N, 1) and the returned tensor has shape (N, p + 1); and it returns
\* whenever numpy accepts noise_std (noise_std >= 0).
C5_Shape ==
    at = "returned" =>
        /\ data.status # "AssertionError"
        /\ data.status # "RuntimeError"
        /\ call.noise_std >= 0 => data.status = "ok"
        /\ data.status = "ok" =>
              /\ data.X_shape = << call.N, call.p >>
              /\ data.y_shape = << call.N, 1 >>
              /\ data.shape = << call.N, call.p + 1 >>

C5_Witness ==
    /\ at = "returned"
    /\ call.N >= 3
    /\ call.p >= 2
    /\ call.noise_std > 0
    /\ data.status = "ok"
    /\ data.shape = << call.N, call.p + 1 >>
====
